---- MODULE Spec2Model ----
(***************************************************************************)
(* peeng (src/main.go): an IPFS peer monitor.  One background goroutine    *)
(* (workerLoop) re-pings the peers of a SQLite table, HTTP handlers        *)
(* (handlePeers, handleHehojExiste) list the table and ping on demand;     *)
(* every task shares the table `peers` and the mutex dbMu.                 *)
(***************************************************************************)
EXTENDS Integers, Sequences, FiniteSets, TLC

(* ------------------------------ bounds --------------------------------- *)
\* the wall clock runs from 0 to MaxClock
MaxClock == 2
\* longest streamed ping response, in lines
MaxLines == 3

(* ------------------------- program constants --------------------------- *)
\* http.StatusOK, the only status whose body is read
StatusOK == 200
\* LIMIT of the worker's selection query
Limit == 5

(* ------------------------------ universe ------------------------------- *)
\* peer identifiers a request may carry; "" is the empty peer_id
Peers == {"QmA", "QmB"}
Worker == "worker"
Handlers == {"h1", "h2"}
Tasks == {Worker} \cup Handlers
\* dbMu when unlocked
NoOwner == "none"
\* time.Time{} as far as the model's clock is concerned
ZeroTime == 0
\* values of resp.StatusCode the daemon answers with
Statuses == {200, 204, 404, 500}
\* values of msg.Time in a decoded line (nanoseconds)
Times == {-1, 0, 5000000}

VARIABLES
  store,      \* table peers: a set of rows [peer_id, last_time_check, active]
  dbMu,       \* owner of the mutex dbMu, or NoOwner
  clock,      \* wall clock read by time.Now()
  pc,         \* control point of each task
  pid,        \* per task: the peer being probed (pid / req.PeerID)
  ok,         \* per task: verdict of the last probe (ok / pingOK)
  checkTime,  \* per task: the time.Now() passed to upsertPeer
  err,        \* per task: whether its last store call returned an error
  rows,       \* per task: the *sql.Rows cursor of its query
  pidsToPing, \* worker: peer ids left to ping in this iteration
  out,        \* per handler: the HTTP response written
  lastUpsert, \* per peer: arguments of the last upsertPeer call that was applied
  probe,      \* one call of pingPeerWithAddress on a given daemon response
  query,      \* one db.Query followed on a given table, and what it returned
  req,        \* the /hehojexiste request followed through its handler
  probes      \* per handler: calls of pingPeerWithAddress it has made

vars == <<store, dbMu, clock, pc, pid, ok, checkTime, err, rows, pidsToPing,
          out, lastUpsert, probe, query, req, probes>>

(* ===================== pingPeerWithAddress (162-243) ==================== *)

\* One line of the streamed body: decodes says whether json.Unmarshal accepts
\* it; Success and Time are the decoded fields (Text only feeds the log).
Line == [decodes : BOOLEAN, Success : BOOLEAN, Time : Times]
Malformed == [decodes |-> FALSE, Success |-> FALSE, Time |-> 0]
Lines == {l \in Line : l.decodes \/ l = Malformed}

RECURSIVE SeqsUpTo(_, _)
SeqsUpTo(S, n) ==
  IF n = 0 THEN {<<>>}
  ELSE LET shorter == SeqsUpTo(S, n - 1)
       IN  shorter \cup {Append(s, x) : s \in {q \in shorter : Len(q) = n - 1}, x \in S}

\* What client.Do and the body give back.  doErr: client.Do failed (transport
\* error, timeout).  failed/failAt: the body reader fails, and the scanner
\* latches that error once failAt lines have been delivered; lines buffered
\* before the failure are still delivered by Scan afterwards.
Responses ==
  { [doErr |-> d, status |-> s, lines |-> ls, failed |-> f, failAt |-> k] :
      d \in BOOLEAN, s \in Statuses, ls \in SeqsUpTo(Lines, MaxLines),
      f \in BOOLEAN, k \in 0..MaxLines }

WellFormed(r) ==
  /\ r.failAt <= Len(r.lines)
  /\ (~r.failed => r.failAt = Len(r.lines))
  /\ (r.doErr => r.status = StatusOK /\ r.lines = <<>> /\ ~r.failed)

DaemonResponses == {r \in Responses : WellFormed(r)}

Qualifies_NonStrict(msg) == msg.Time >= 0 /\ msg.Success
\* line 219
Qualifies(msg) == msg.Time > 0 /\ msg.Success

RECURSIVE scanLoop_AbortOnMalformed(_, _)
scanLoop_AbortOnMalformed(lines, i) ==
  IF i > Len(lines) THEN [pongCount |-> 0, consumed |-> Len(lines)]
  ELSE IF ~lines[i].decodes THEN [pongCount |-> 0, consumed |-> i]
  ELSE IF Qualifies(lines[i]) THEN [pongCount |-> 1, consumed |-> i]
  ELSE scanLoop_AbortOnMalformed(lines, i + 1)

\* lines 204-228: for scanner.Scan() { Unmarshal; continue on error; break on
\* the first qualifying line }.  i is the next line Scan delivers.
RECURSIVE scanLoop(_, _)
scanLoop(lines, i) ==
  IF i > Len(lines) THEN [pongCount |-> 0, consumed |-> Len(lines)]
  ELSE IF ~lines[i].decodes THEN scanLoop(lines, i + 1)
  ELSE IF Qualifies(lines[i]) THEN [pongCount |-> 1, consumed |-> i]
  ELSE scanLoop(lines, i + 1)

\* line 230: scanner.Err() after the loop left having consumed n lines
scannerErr(r, n, broke) ==
  r.failed /\ (IF broke THEN n > r.failAt ELSE TRUE)

pingPeerWithAddress_NoStatusCheck(r) ==
  IF r.doErr THEN [ok |-> FALSE, consumed |-> 0]
  ELSE LET s == scanLoop(r.lines, 1)
       IN  IF scannerErr(r, s.consumed, s.pongCount > 0)
             THEN [ok |-> FALSE, consumed |-> s.consumed]
           ELSE [ok |-> s.pongCount > 0, consumed |-> s.consumed]

\* lines 187-242: verdict, and how many body lines the call consumed
pingPeerWithAddress(r) ==
  IF r.doErr THEN [ok |-> FALSE, consumed |-> 0]
  ELSE IF r.status # StatusOK THEN [ok |-> FALSE, consumed |-> 0]
  ELSE LET s == scanLoop(r.lines, 1)
       IN  IF scannerErr(r, s.consumed, s.pongCount > 0)
             THEN [ok |-> FALSE, consumed |-> s.consumed]
           ELSE [ok |-> s.pongCount > 0, consumed |-> s.consumed]

\* the verdicts a probe can return to its caller
PingOutcomes == {pingPeerWithAddress(r).ok : r \in DaemonResponses}


(* ========================= the table `peers` ============================ *)

\* a row of the table created at lines 71-75
Row(p, t, a) == [peer_id |-> p, last_time_check |-> t, active |-> a]

HasRecord(s, p) == \E r \in s : r.peer_id = p
RecordsOf(s, p) == {r \in s : r.peer_id = p}

upsertPeer_InsertOnly(s, peerID, t, active) == s \cup {Row(peerID, t, active)}

upsertPeer_KeepActive(s, peerID, t, active) ==
  IF HasRecord(s, peerID)
    THEN {IF r.peer_id = peerID THEN Row(peerID, t, r.active) ELSE r : r \in s}
  ELSE s \cup {Row(peerID, t, active)}

upsertPeer_Truncate(s, peerID, t, active) == {Row(peerID, t, active)}

upsertPeer_PruneInactive(s, peerID, t, active) ==
  {r \in s : r.peer_id # peerID /\ r.active} \cup {Row(peerID, t, active)}

\* lines 249-255: INSERT ... ON CONFLICT(peer_id) DO UPDATE SET
\* last_time_check = excluded.last_time_check, active = excluded.active
upsertPeer(s, peerID, t, active) ==
  IF HasRecord(s, peerID)
    THEN {IF r.peer_id = peerID THEN Row(peerID, t, active) ELSE r : r \in s}
  ELSE s \cup {Row(peerID, t, active)}

\* every enumeration of the rows of s
RECURSIVE Perms(_)
Perms(s) ==
  IF s = {} THEN {<<>>}
  ELSE UNION {{<<r>> \o q : q \in Perms(s \ {r})} : r \in s}

OrderedAsc(q) ==
  \A i, j \in 1..Len(q) : i < j => q[i].last_time_check <= q[j].last_time_check
OrderedDesc(q) ==
  \A i, j \in 1..Len(q) : i < j => q[i].last_time_check >= q[j].last_time_check

FirstN_Whole(q, n) == q

FirstN(q, n) == SubSeq(q, 1, IF Len(q) < n THEN Len(q) ELSE n)

selectOldest_NewestFirst(s) ==
  {[i \in 1..Len(FirstN(q, Limit)) |-> q[i].peer_id] : q \in {x \in Perms(s) : OrderedDesc(x)}}

selectOldest_NewestOnly(s) ==
  {[i \in 1..Len(FirstN(q, 1)) |-> q[i].peer_id] : q \in {x \in Perms(s) : OrderedDesc(x)}}

selectOldest_NotRecent(s) ==
  {[i \in 1..Len(FirstN(q, Limit)) |-> q[i].peer_id] :
     q \in {x \in Perms({r \in s : clock - r.last_time_check >= 5}) : OrderedAsc(x)}}

\* lines 98-102: SELECT peer_id FROM peers ORDER BY last_time_check ASC LIMIT 5.
\* SQL leaves the order of equal timestamps open: every result the query may give.
selectOldest(s) ==
  {[i \in 1..Len(FirstN(q, Limit)) |-> q[i].peer_id] : q \in {x \in Perms(s) : OrderedAsc(x)}}

\* line 266: SELECT peer_id, last_time_check, active FROM peers
\*           ORDER BY last_time_check DESC
selectAllDesc(s) == {q \in Perms(s) : OrderedDesc(q)}

\* A *sql.Rows cursor.  db.Query hands back the cursor; the driver may read the
\* table when the query is issued or when rows.Next() is first called, so the
\* result is fetched at either moment.
NoRows == [fetched |-> TRUE, buf |-> <<>>]
dbQuery(results) ==
  {[fetched |-> FALSE, buf |-> <<>>]} \cup {[fetched |-> TRUE, buf |-> q] : q \in results}
Fetch(c, results) ==
  IF c.fetched THEN {c} ELSE {[fetched |-> TRUE, buf |-> q] : q \in results}

\* lines 277-290: the timestamp is scanned as an RFC3339Nano string and parsed
\* back; a string that does not parse gives time.Time{}
FormatRFC3339Nano(t) == <<"rfc3339nano", t>>
ParseRFC3339Nano(ts) ==
  IF Len(ts) = 2 /\ ts[1] = "rfc3339nano" THEN ts[2] ELSE ZeroTime

(* ============================== state =================================== *)

NoCall == [applied |-> FALSE, checkTime |-> 0, active |-> FALSE]
NoResponse == [status |-> 0, peers |-> <<>>, ping_successful |-> FALSE]
ProbeIdle == [state |-> "idle",
              resp |-> [doErr |-> TRUE, status |-> StatusOK, lines |-> <<>>,
                        failed |-> FALSE, failAt |-> 0],
              ok |-> FALSE, consumed |-> 0]

QueryIdle == [state |-> "idle", result |-> <<>>]
NoRequest == [method |-> "", body |-> [decodes |-> FALSE, peer_id |-> ""]]

Init ==
  /\ store = {}
  /\ dbMu = NoOwner
  /\ clock = 0
  /\ pc = [t \in Tasks |-> IF t = Worker THEN "w_lock" ELSE "idle"]
  /\ pid = [t \in Tasks |-> ""]
  /\ ok = [t \in Tasks |-> FALSE]
  /\ checkTime = [t \in Tasks |-> 0]
  /\ err = [t \in Tasks |-> FALSE]
  /\ rows = [t \in Tasks |-> NoRows]
  /\ pidsToPing = <<>>
  /\ out = [h \in Handlers |-> NoResponse]
  /\ lastUpsert = [p \in Peers |-> NoCall]
  /\ probe = ProbeIdle
  /\ query = QueryIdle
  /\ req = NoRequest
  /\ probes = [h \in Handlers |-> 0]

\* time passes
Tick ==
  /\ clock < MaxClock
  /\ clock' = clock + 1
  /\ UNCHANGED <<store, dbMu, pc, pid, ok, checkTime, err, rows, pidsToPing,
                 out, lastUpsert, probe, query, req, probes>>

(* ========================= workerLoop (84-129) ========================== *)

\* line 97: dbMu.Lock()
WorkerLock ==
  /\ pc[Worker] = "w_lock"
  /\ dbMu = NoOwner
  /\ dbMu' = Worker
  /\ pc' = [pc EXCEPT ![Worker] = "w_query"]
  /\ UNCHANGED <<store, clock, pid, ok, checkTime, err, rows, pidsToPing,
                 out, lastUpsert, probe, query, req, probes>>

WorkerQueryErr_NoUnlock ==
  /\ pc[Worker] = "w_query"
  /\ err' = [err EXCEPT ![Worker] = TRUE]
  /\ pc' = [pc EXCEPT ![Worker] = "w_sleep"]
  /\ UNCHANGED <<store, dbMu, clock, pid, ok, checkTime, rows, pidsToPing,
                 out, lastUpsert, probe, query, req, probes>>

\* lines 98-108: db.Query fails: Unlock, then time.Sleep
WorkerQueryErr ==
  /\ pc[Worker] = "w_query"
  /\ err' = [err EXCEPT ![Worker] = TRUE]
  /\ dbMu' = NoOwner
  /\ pc' = [pc EXCEPT ![Worker] = "w_sleep"]
  /\ UNCHANGED <<store, clock, pid, ok, checkTime, rows, pidsToPing,
                 out, lastUpsert, probe, query, req, probes>>

\* lines 98-110: db.Query succeeds; var pidsToPing []string
WorkerQueryOK ==
  /\ pc[Worker] = "w_query"
  /\ \E c \in dbQuery(selectOldest(store)) : rows' = [rows EXCEPT ![Worker] = c]
  /\ err' = [err EXCEPT ![Worker] = FALSE]
  /\ pidsToPing' = <<>>
  /\ pc' = [pc EXCEPT ![Worker] = "w_next"]
  /\ UNCHANGED <<store, dbMu, clock, pid, ok, checkTime, out, lastUpsert, probe, query, req, probes>>

WorkerWake_Exit ==
  /\ pc[Worker] = "w_sleep"
  /\ err' = [err EXCEPT ![Worker] = FALSE]
  /\ pc' = [pc EXCEPT ![Worker] = "exit"]
  /\ UNCHANGED <<store, dbMu, clock, pid, ok, checkTime, rows, pidsToPing,
                 out, lastUpsert, probe, query, req, probes>>

\* lines 106-107: the sleep ends; continue
WorkerWake ==
  /\ pc[Worker] = "w_sleep"
  /\ err' = [err EXCEPT ![Worker] = FALSE]
  /\ pc' = [pc EXCEPT ![Worker] = "w_lock"]
  /\ UNCHANGED <<store, dbMu, clock, pid, ok, checkTime, rows, pidsToPing,
                 out, lastUpsert, probe, query, req, probes>>

WorkerNext_AnyPeer ==
  /\ pc[Worker] = "w_next"
  /\ \E c \in Fetch(rows[Worker], selectOldest(store)) :
       /\ c.buf # <<>>
       /\ rows' = [rows EXCEPT ![Worker] = [c EXCEPT !.buf = Tail(c.buf)]]
       /\ \E p \in Peers : pidsToPing' = Append(pidsToPing, p)
  /\ UNCHANGED <<store, dbMu, clock, pc, pid, ok, checkTime, err, out,
                 lastUpsert, probe, query, req, probes>>

\* lines 111-118: rows.Next() gives a row; rows.Scan either appends its
\* peer_id or fails, and then the row is skipped
WorkerScan(scanErr) ==
  /\ pc[Worker] = "w_next"
  /\ \E c \in Fetch(rows[Worker], selectOldest(store)) :
       /\ c.buf # <<>>
       /\ rows' = [rows EXCEPT ![Worker] = [c EXCEPT !.buf = Tail(c.buf)]]
       /\ pidsToPing' = IF scanErr THEN pidsToPing
                         ELSE Append(pidsToPing, Head(c.buf))
  /\ UNCHANGED <<store, dbMu, clock, pc, pid, ok, checkTime, err, out,
                 lastUpsert, probe, query, req, probes>>

WorkerNext == \E scanErr \in BOOLEAN : WorkerScan(scanErr)

WorkerClose_KeepLock ==
  /\ pc[Worker] = "w_next"
  /\ \E c \in Fetch(rows[Worker], selectOldest(store)) : c.buf = <<>>
  /\ rows' = [rows EXCEPT ![Worker] = NoRows]
  /\ pc' = [pc EXCEPT ![Worker] = "w_range"]
  /\ UNCHANGED <<store, dbMu, clock, pid, ok, checkTime, err, pidsToPing, out,
                 lastUpsert, probe, query, req, probes>>

\* lines 111, 119-120: rows.Next() is false; rows.Close(); dbMu.Unlock()
WorkerClose ==
  /\ pc[Worker] = "w_next"
  /\ \E c \in Fetch(rows[Worker], selectOldest(store)) : c.buf = <<>>
  /\ rows' = [rows EXCEPT ![Worker] = NoRows]
  /\ dbMu' = NoOwner
  /\ pc' = [pc EXCEPT ![Worker] = "w_range"]
  /\ UNCHANGED <<store, clock, pid, ok, checkTime, err, pidsToPing, out,
                 lastUpsert, probe, query, req, probes>>

WorkerRange_LastFirst ==
  /\ pc[Worker] = "w_range"
  /\ IF pidsToPing = <<>>
       THEN /\ pc' = [pc EXCEPT ![Worker] = "w_lock"]
            /\ UNCHANGED <<pid, pidsToPing>>
     ELSE /\ pid' = [pid EXCEPT ![Worker] = pidsToPing[Len(pidsToPing)]]
          /\ pidsToPing' = SubSeq(pidsToPing, 1, Len(pidsToPing) - 1)
          /\ pc' = [pc EXCEPT ![Worker] = "ping"]
  /\ UNCHANGED <<store, dbMu, clock, ok, checkTime, err, rows, out,
                 lastUpsert, probe, query, req, probes>>

\* lines 123-124, 128: the next pid of pidsToPing is pinged; when none is
\* left the for loop starts its next iteration
WorkerRange ==
  /\ pc[Worker] = "w_range"
  /\ IF pidsToPing = <<>>
       THEN /\ pc' = [pc EXCEPT ![Worker] = "w_lock"]
            /\ UNCHANGED <<pid, pidsToPing>>
     ELSE /\ pid' = [pid EXCEPT ![Worker] = Head(pidsToPing)]
          /\ pidsToPing' = Tail(pidsToPing)
          /\ pc' = [pc EXCEPT ![Worker] = "ping"]
  /\ UNCHANGED <<store, dbMu, clock, ok, checkTime, err, rows, out,
                 lastUpsert, probe, query, req, probes>>


(* ============ pingPeer / pingPeerWithAddress seen by the caller ========= *)

PingReturn_StopOnFailure(t) ==
  /\ pc[t] = "ping"
  /\ \E v \in PingOutcomes :
       /\ ok' = [ok EXCEPT ![t] = v]
       /\ pc' = [pc EXCEPT ![t] = IF t = Worker /\ ~v THEN "exit" ELSE "u_lock"]
  /\ checkTime' = [checkTime EXCEPT ![t] = clock]
  /\ UNCHANGED <<store, dbMu, clock, pid, err, rows, pidsToPing, out,
                 lastUpsert, probe, query, req, probes>>

\* lines 124-126 and 320-324: the probe returns a verdict; the caller reads
\* time.Now() and calls upsertPeer(pid, time.Now(), ok)
PingReturn(t) ==
  /\ pc[t] = "ping"
  /\ \E v \in PingOutcomes : ok' = [ok EXCEPT ![t] = v]
  /\ checkTime' = [checkTime EXCEPT ![t] = clock]
  /\ pc' = [pc EXCEPT ![t] = "u_lock"]
  /\ UNCHANGED <<store, dbMu, clock, pid, err, rows, pidsToPing, out,
                 lastUpsert, probe, query, req, probes>>

(* ========================= upsertPeer (245-262) ========================= *)

\* line 246: dbMu.Lock()
UpsertLock(t) ==
  /\ pc[t] = "u_lock"
  /\ dbMu = NoOwner
  /\ dbMu' = t
  /\ pc' = [pc EXCEPT ![t] = "u_exec"]
  /\ UNCHANGED <<store, clock, pid, ok, checkTime, err, rows, pidsToPing, out,
                 lastUpsert, probe, query, req, probes>>

\* lines 249-255, 259-261: db.Exec applies the statement
UpsertExecOK(t) ==
  /\ pc[t] = "u_exec"
  /\ store' = upsertPeer(store, pid[t], checkTime[t], ok[t])
  /\ err' = [err EXCEPT ![t] = FALSE]
  /\ lastUpsert' = [lastUpsert EXCEPT ![pid[t]] =
                      [applied |-> TRUE, checkTime |-> checkTime[t], active |-> ok[t]]]
  /\ pc' = [pc EXCEPT ![t] = "u_ret"]
  /\ UNCHANGED <<dbMu, clock, pid, ok, checkTime, rows, pidsToPing, out, probe, query, req, probes>>

UpsertExecErr_HalfApplied(t) ==
  /\ pc[t] = "u_exec"
  /\ store' = upsertPeer(store, pid[t], checkTime[t], ok[t])
  /\ err' = [err EXCEPT ![t] = TRUE]
  /\ pc' = [pc EXCEPT ![t] = "u_ret"]
  /\ UNCHANGED <<dbMu, clock, pid, ok, checkTime, rows, pidsToPing, out,
                 lastUpsert, probe, query, req, probes>>

\* lines 249-258: db.Exec fails; the statement changes nothing
UpsertExecErr(t) ==
  /\ pc[t] = "u_exec"
  /\ err' = [err EXCEPT ![t] = TRUE]
  /\ pc' = [pc EXCEPT ![t] = "u_ret"]
  /\ UNCHANGED <<store, dbMu, clock, pid, ok, checkTime, rows, pidsToPing, out,
                 lastUpsert, probe, query, req, probes>>

UpsertReturn_AlwaysTrue(t) ==
  /\ pc[t] = "u_ret"
  /\ dbMu' = NoOwner
  /\ checkTime' = [checkTime EXCEPT ![t] = 0]
  /\ IF t = Worker
       THEN /\ pc' = [pc EXCEPT ![t] = "w_range"]
            /\ pid' = [pid EXCEPT ![t] = ""]
            /\ ok' = [ok EXCEPT ![t] = FALSE]
            /\ err' = [err EXCEPT ![t] = FALSE]
            /\ out' = out
     ELSE /\ pc' = [pc EXCEPT ![t] = "done"]
          /\ out' = [out EXCEPT ![t] =
                       [status |-> 200, peers |-> <<>>, ping_successful |-> TRUE]]
          /\ UNCHANGED <<pid, ok, err>>
  /\ UNCHANGED <<store, clock, rows, pidsToPing, lastUpsert, probe, query, req, probes>>

\* line 247 (deferred dbMu.Unlock()) and the return to the caller: the worker
\* goes on with its range loop (127), where pid and ok go out of scope; the
\* handler writes its response (327-332)
UpsertReturn(t) ==
  /\ pc[t] = "u_ret"
  /\ dbMu' = NoOwner
  /\ checkTime' = [checkTime EXCEPT ![t] = 0]
  /\ IF t = Worker
       THEN /\ pc' = [pc EXCEPT ![t] = "w_range"]
            /\ pid' = [pid EXCEPT ![t] = ""]
            /\ ok' = [ok EXCEPT ![t] = FALSE]
            /\ err' = [err EXCEPT ![t] = FALSE]
            /\ out' = out
     ELSE /\ pc' = [pc EXCEPT ![t] = "done"]
          /\ out' = [out EXCEPT ![t] =
                       [status |-> 200, peers |-> <<>>, ping_successful |-> ok[t]]]
          /\ UNCHANGED <<pid, ok, err>>
  /\ UNCHANGED <<store, clock, rows, pidsToPing, lastUpsert, probe, query, req, probes>>

(* ========================= handlePeers (264-300) ======================== *)

\* a GET /peers request arrives; line 265 is next
RequestPeers(h) ==
  /\ pc[h] = "idle"
  /\ pc' = [pc EXCEPT ![h] = "p_lock"]
  /\ UNCHANGED <<store, dbMu, clock, pid, ok, checkTime, err, rows, pidsToPing,
                 out, lastUpsert, probe, query, req, probes>>

\* line 265: dbMu.Lock()
PeersLock(h) ==
  /\ pc[h] = "p_lock"
  /\ dbMu = NoOwner
  /\ dbMu' = h
  /\ pc' = [pc EXCEPT ![h] = "p_query"]
  /\ UNCHANGED <<store, clock, pid, ok, checkTime, err, rows, pidsToPing, out,
                 lastUpsert, probe, query, req, probes>>

\* lines 266-271: db.Query fails; Unlock; 500
PeersQueryErr(h) ==
  /\ pc[h] = "p_query"
  /\ err' = [err EXCEPT ![h] = TRUE]
  /\ dbMu' = NoOwner
  /\ out' = [out EXCEPT ![h] = [NoResponse EXCEPT !.status = 500]]
  /\ pc' = [pc EXCEPT ![h] = "done"]
  /\ UNCHANGED <<store, clock, pid, ok, checkTime, rows, pidsToPing,
                 lastUpsert, probe, query, req, probes>>

\* lines 266-274: db.Query succeeds; Unlock; var peers []Peer
PeersQueryRows(h) ==
  /\ pc[h] = "p_query"
  /\ \E c \in dbQuery(selectAllDesc(store)) : rows' = [rows EXCEPT ![h] = c]
  /\ err' = [err EXCEPT ![h] = FALSE]
  /\ dbMu' = NoOwner
  /\ pc' = [pc EXCEPT ![h] = "p_next"]
  /\ UNCHANGED <<store, clock, pid, ok, checkTime, pidsToPing, out,
                 lastUpsert, probe, req, probes>>

PeersQueryOK(h) == PeersQueryRows(h) /\ query' = query

\* lines 275-293: rows.Next() gives a row; rows.Scan fails and the row is
\* skipped, or the row is appended with its timestamp parsed back
PeersNext(h) ==
  /\ pc[h] = "p_next"
  /\ \E c \in Fetch(rows[h], selectAllDesc(store)) :
       /\ c.buf # <<>>
       /\ rows' = [rows EXCEPT ![h] = [c EXCEPT !.buf = Tail(c.buf)]]
       /\ \E scanErr \in BOOLEAN :
            out' = IF scanErr THEN out
                   ELSE LET r == Head(c.buf)
                            ts == FormatRFC3339Nano(r.last_time_check)
                            p == [PeerID |-> r.peer_id,
                                  LastTimeCheck |-> ParseRFC3339Nano(ts),
                                  Active |-> r.active]
                        IN  [out EXCEPT ![h].peers = Append(@, p)]
  /\ UNCHANGED <<store, dbMu, clock, pc, pid, ok, checkTime, err, pidsToPing,
                 lastUpsert, probe, query, req, probes>>

\* lines 275, 295-299, 272: rows.Next() is false; the list is encoded;
\* the deferred rows.Close() runs
PeersDone(h) ==
  /\ pc[h] = "p_next"
  /\ \E c \in Fetch(rows[h], selectAllDesc(store)) : c.buf = <<>>
  /\ rows' = [rows EXCEPT ![h] = NoRows]
  /\ out' = [out EXCEPT ![h].status = 200]
  /\ pc' = [pc EXCEPT ![h] = "done"]
  /\ UNCHANGED <<store, dbMu, clock, pid, ok, checkTime, err, pidsToPing,
                 lastUpsert, probe, query, req, probes>>

(* ====================== handleHehojExiste (302-333) ===================== *)

Methods == {"GET", "POST"}
\* request bodies: decodes says whether json Decode accepts the body
Bodies == [decodes : BOOLEAN, peer_id : Peers \cup {""}]

HehojArrive_NoPeerCheck(h, method, body) ==
  /\ pc[h] = "idle"
  /\ IF method # "POST"
       THEN /\ out' = [out EXCEPT ![h] = [NoResponse EXCEPT !.status = 405]]
            /\ pc' = [pc EXCEPT ![h] = "done"]
            /\ UNCHANGED <<pid, probes>>
     ELSE IF ~body.decodes
       THEN /\ out' = [out EXCEPT ![h] = [NoResponse EXCEPT !.status = 400]]
            /\ pc' = [pc EXCEPT ![h] = "done"]
            /\ UNCHANGED <<pid, probes>>
     ELSE /\ pid' = [pid EXCEPT ![h] = body.peer_id]
          /\ probes' = [probes EXCEPT ![h] = @ + 1]
          /\ pc' = [pc EXCEPT ![h] = "ping"]
          /\ out' = out
  /\ UNCHANGED <<store, dbMu, clock, ok, checkTime, err, rows, pidsToPing,
                 lastUpsert, probe, query, req>>

\* lines 303-320: the request (method, body) is validated; a request that
\* passes starts the probe (address_map only shapes the URL)
HehojArrive(h, method, body) ==
  /\ pc[h] = "idle"
  /\ IF method # "POST"
       THEN /\ out' = [out EXCEPT ![h] = [NoResponse EXCEPT !.status = 405]]
            /\ pc' = [pc EXCEPT ![h] = "done"]
            /\ UNCHANGED <<pid, probes>>
     ELSE IF ~body.decodes \/ body.peer_id = ""
       THEN /\ out' = [out EXCEPT ![h] = [NoResponse EXCEPT !.status = 400]]
            /\ pc' = [pc EXCEPT ![h] = "done"]
            /\ UNCHANGED <<pid, probes>>
     ELSE /\ pid' = [pid EXCEPT ![h] = body.peer_id]
          /\ probes' = [probes EXCEPT ![h] = @ + 1]
          /\ pc' = [pc EXCEPT ![h] = "ping"]
          /\ out' = out
  /\ UNCHANGED <<store, dbMu, clock, ok, checkTime, err, rows, pidsToPing,
                 lastUpsert, probe, query, req>>

\* a request to /hehojexiste arrives
RequestHehoj(h) == \E method \in Methods, body \in Bodies : HehojArrive(h, method, body)

(* ============================ specification ============================= *)

WorkerStep ==
  \/ WorkerLock \/ WorkerQueryErr \/ WorkerQueryOK \/ WorkerWake
  \/ WorkerNext \/ WorkerClose \/ WorkerRange

HandlerStep(h) ==
  \/ RequestPeers(h) \/ PeersLock(h) \/ PeersQueryErr(h) \/ PeersQueryOK(h)
  \/ PeersNext(h) \/ PeersDone(h) \/ RequestHehoj(h)

UpsertStep(t) ==
  \/ PingReturn(t) \/ UpsertLock(t) \/ UpsertExecOK(t) \/ UpsertExecErr(t)
  \/ UpsertReturn(t)

Next ==
  \/ Tick
  \/ WorkerStep
  \/ \E h \in Handlers : HandlerStep(h)
  \/ \E t \in Tasks : UpsertStep(t)

Spec == Init /\ [][Next]_vars

(* ------------- one call of pingPeerWithAddress, any response ------------ *)

InitProbe ==
  /\ store = {}
  /\ dbMu = NoOwner
  /\ clock = 0
  /\ pc = [t \in Tasks |-> IF t = Worker THEN "w_lock" ELSE "idle"]
  /\ pid = [t \in Tasks |-> ""]
  /\ ok = [t \in Tasks |-> FALSE]
  /\ checkTime = [t \in Tasks |-> 0]
  /\ err = [t \in Tasks |-> FALSE]
  /\ rows = [t \in Tasks |-> NoRows]
  /\ pidsToPing = <<>>
  /\ out = [h \in Handlers |-> NoResponse]
  /\ lastUpsert = [p \in Peers |-> NoCall]
  /\ probe \in {[state |-> "called", resp |-> r, ok |-> FALSE, consumed |-> 0] :
                  r \in DaemonResponses}
  /\ query = QueryIdle
  /\ req = NoRequest
  /\ probes = [h \in Handlers |-> 0]

\* lines 187-242 on the response probe.resp
ProbeCall ==
  /\ probe.state = "called"
  /\ LET res == pingPeerWithAddress(probe.resp)
     IN  probe' = [probe EXCEPT !.state = "returned", !.ok = res.ok,
                                !.consumed = res.consumed]
  /\ UNCHANGED <<store, dbMu, clock, pc, pid, ok, checkTime, err, rows,
                 pidsToPing, out, lastUpsert, query, req, probes>>

NextProbe == ProbeCall

SpecProbe == InitProbe /\ [][NextProbe]_vars


(* ============================== fairness ================================ *)

\* The Go scheduler runs every runnable goroutine (weak fairness of each
\* step a task takes alone), a probe returns within its 30 s timeout, and
\* sync.Mutex hands a starved waiter the lock (strong fairness of Lock).
TaskProgress(t) ==
  \/ PingReturn(t) \/ UpsertExecOK(t) \/ UpsertExecErr(t) \/ UpsertReturn(t)
  \/ (t = Worker /\ (WorkerQueryErr \/ WorkerQueryOK \/ WorkerWake \/ WorkerNext
                       \/ WorkerClose \/ WorkerRange))
  \/ (t \in Handlers /\ (PeersQueryErr(t) \/ PeersQueryOK(t) \/ PeersNext(t)
                           \/ PeersDone(t)))

TaskLock(t) ==
  \/ UpsertLock(t)
  \/ (t = Worker /\ WorkerLock)
  \/ (t \in Handlers /\ PeersLock(t))

FairSpec ==
  /\ Spec
  /\ \A t \in Tasks : WF_vars(TaskProgress(t)) /\ SF_vars(TaskLock(t))

(* =============================== claims ================================= *)

\* control points at which a task is inside a call on the table: the worker's
\* query and row scan, db.Exec of an upsert, the list's query and iteration
InStoreOp(t) == pc[t] \in {"w_query", "w_next", "u_exec", "p_query", "p_next"}
\* control points at which a task waits in dbMu.Lock()
AtLock(t) == pc[t] \in {"w_lock", "u_lock", "p_lock"}
\* control points between a task's dbMu.Lock() and its dbMu.Unlock()
InCritical(t) == pc[t] \in {"w_query", "w_next", "u_exec", "u_ret", "p_query"}

\* C1: every read and write of the table happens with dbMu held by the task
\* doing it - the worker's query and scan, an upsert, the list's query and its
\* iteration over the rows - and store operations of two tasks never overlap.
C1_StoreOpsSerialized ==
  /\ \A t \in Tasks : InStoreOp(t) => dbMu = t
  /\ \A t, u \in Tasks : (t # u /\ InStoreOp(t)) => ~InStoreOp(u)

\* C2: a write to a peer's record never stores a last_time_check smaller
\* than the one it replaces (the clock itself never goes back).
C2_LastCheckNeverDecreases ==
  [][\A r \in store : \A q \in store' :
       r.peer_id = q.peer_id => q.last_time_check >= r.last_time_check]_vars

\* C3: the table never holds two rows with the same peer_id, and an upsert
\* that is applied leaves exactly one row for its peer, carrying the values
\* of that call, without changing the number of rows when the peer was known.
C3_OneRecordPerPeer ==
  /\ [](\A r, q \in store : r.peer_id = q.peer_id => r = q)
  /\ [][\A t \in Tasks :
          (pc[t] = "u_exec" /\ pc'[t] = "u_ret" /\ ~err'[t]) =>
            /\ RecordsOf(store', pid[t]) = {Row(pid[t], checkTime[t], ok[t])}
            /\ \A r \in store : r.peer_id # pid[t] => r \in store'
            /\ HasRecord(store, pid[t]) => Cardinality(store') = Cardinality(store)
            /\ ~HasRecord(store, pid[t]) => Cardinality(store') = Cardinality(store) + 1]_vars

\* C3 witness: a second upsert of a peer has just been applied over the
\* record a finished request left, with another timestamp and flag
C3_Witness ==
  \E t \in Tasks, h \in Handlers :
    /\ t # h /\ pc[t] = "u_ret" /\ ~err[t]
    /\ pc[h] = "done" /\ out[h].status = 200 /\ pid[h] = pid[t] /\ pid[h] # ""
    /\ ~err[h] /\ out[h].ping_successful # ok[t]
    /\ checkTime[t] > 0
    /\ store = {Row(pid[t], checkTime[t], ok[t])}

\* C4: a task inside the probe call never holds dbMu, and whoever holds dbMu
\* meanwhile is inside its own short critical section, not in a probe.
C4_NoLockAcrossProbe ==
  \A t \in Tasks :
    pc[t] = "ping" =>
      /\ dbMu # t
      /\ \A u \in Tasks : dbMu = u => InCritical(u)

\* C4 witness: the worker's probe is in flight while one handler runs its
\* list query under the mutex and the other has completed an upsert
C4_Witness ==
  /\ pc[Worker] = "ping"
  /\ \E h, g \in Handlers :
       /\ pc[h] = "p_query" /\ dbMu = h
       /\ pc[g] = "done" /\ out[g].status = 200 /\ pid[g] # ""

\* C5: every stored row is exactly the (checkTime, active) pair of the last
\* upsertPeer call applied for its peer_id, active being that call's probe
\* verdict; a peer no call was applied for has no row.
C5_LastWriterWins ==
  \A p \in Peers :
    RecordsOf(store, p) =
      IF lastUpsert[p].applied
        THEN {Row(p, lastUpsert[p].checkTime, lastUpsert[p].active)}
      ELSE {}

\* C5 witness: an upsert has just replaced a record whose timestamp and flag
\* both differ from its own
C5_Witness ==
  \E t \in Tasks, h \in Handlers :
    /\ t # h /\ pc[t] = "u_ret" /\ ~err[t]
    /\ pc[h] = "done" /\ out[h].status = 200 /\ pid[h] = pid[t] /\ pid[h] # ""
    /\ ~err[h] /\ out[h].ping_successful # ok[t]
    /\ checkTime[t] > 0
    /\ lastUpsert[pid[t]] = [applied |-> TRUE, checkTime |-> checkTime[t],
                             active |-> ok[t]]
    /\ RecordsOf(store, pid[t]) = {Row(pid[t], checkTime[t], ok[t])}

\* requests to /hehojexiste that ran to their response with their upsert applied
Upserted == {h \in Handlers : pc[h] = "done" /\ pid[h] # "" /\ ~err[h]}
\* requests whose upsert db.Exec refused
UpsertFailed == {h \in Handlers : pc[h] = "done" /\ pid[h] # "" /\ err[h]}

\* C6: once every request has completed, the upserts of N requests for N
\* distinct peers (none refused by the storage), run against the empty table
\* concurrently with each other, with list requests and with the worker, have
\* left exactly N rows, one per peer_id.
C6_NoLostUpsert ==
  ( /\ \A h \in Handlers : pc[h] = "done"
    /\ UpsertFailed = {}
    /\ \A h, g \in Upserted : h # g => pid[h] # pid[g] )
  => /\ Cardinality(store) = Cardinality(Upserted)
     /\ {r.peer_id : r \in store} = {pid[h] : h \in Upserted}

\* C6 witness: two requests for two peers have completed while the worker is
\* in the middle of an upsert of its own
C6_Witness ==
  /\ \A h \in Handlers : pc[h] = "done"
  /\ Cardinality(Upserted) = 2
  /\ \A h, g \in Upserted : h # g => pid[h] # pid[g]
  /\ Cardinality(store) = 2
  /\ pc[Worker] = "u_ret"

\* C7: dbMu is held only between a task's Lock and its Unlock - after the
\* worker's query error, a scan error, the list's query error or a failed
\* upsert it is free again - no task calls Lock while holding it, and a task
\* waiting in Lock eventually gets the mutex.
C7_NoDeadlock ==
  /\ [](\A t \in Tasks : dbMu = t => InCritical(t))
  /\ [](\A t \in Tasks : AtLock(t) => dbMu # t)
  /\ \A t \in Tasks : AtLock(t) ~> (dbMu = t)

\* C7 witness: a handler waits in Lock for the mutex the worker holds, after
\* the other handler's list query failed
C7_Witness ==
  \E h, g \in Handlers :
    /\ pc[h] = "u_lock" /\ dbMu = Worker
    /\ pc[g] = "done" /\ out[g].status = 500 /\ err[g]

\* number of lines the scanner delivers before the stream ends or its read
\* error is latched
ReadBeforeEnd(r) == r.failAt

\* C8: for a 200 response the verdict is reachable exactly when some line
\* read before the stream ends or errors decodes to Success = true with
\* Time > 0.
C8_VerdictRule ==
  (probe.state = "returned" /\ ~probe.resp.doErr /\ probe.resp.status = 200) =>
    (probe.ok <=>
       \E i \in 1..ReadBeforeEnd(probe.resp) :
         /\ probe.resp.lines[i].decodes
         /\ probe.resp.lines[i].Success
         /\ probe.resp.lines[i].Time > 0)

\* C8 witness: a success line with Time = 0, a failure line, and no
\* qualifying line: not reachable
C8_Witness ==
  /\ probe.state = "returned" /\ ~probe.resp.doErr /\ probe.resp.status = 200
  /\ ~probe.resp.failed
  /\ Len(probe.resp.lines) = 2
  /\ probe.resp.lines[1] = [decodes |-> TRUE, Success |-> TRUE, Time |-> 0]
  /\ probe.resp.lines[2] = [decodes |-> TRUE, Success |-> FALSE, Time |-> 5000000]
  /\ ~probe.ok

\* C9: malformed lines are skipped: a 200 stream of k malformed lines
\* followed by a line with Success = true and Time > 0, read without error up
\* to that line, gives reachable after consuming exactly k + 1 lines.
C9_MalformedSkipped ==
  \A k \in 0..MaxLines :
    ( /\ probe.state = "returned" /\ ~probe.resp.doErr /\ probe.resp.status = 200
      /\ k < Len(probe.resp.lines)
      /\ \A i \in 1..k : ~probe.resp.lines[i].decodes
      /\ probe.resp.lines[k + 1].decodes
      /\ probe.resp.lines[k + 1].Success
      /\ probe.resp.lines[k + 1].Time > 0
      /\ k + 1 <= ReadBeforeEnd(probe.resp) )
    => (probe.ok /\ probe.consumed = k + 1)

\* C9 witness: two malformed lines, then {Success: true, Time: 5000000}
C9_Witness ==
  /\ probe.state = "returned" /\ ~probe.resp.doErr /\ probe.resp.status = 200
  /\ ~probe.resp.failed
  /\ probe.resp.lines = <<Malformed, Malformed,
                          [decodes |-> TRUE, Success |-> TRUE, Time |-> 5000000]>>
  /\ probe.ok /\ probe.consumed = 3

\* C10: a status outside 200..299 gives not reachable without one line of
\* the body being consumed, whatever the body holds.
C10_Non2xxShortCircuit ==
  ( /\ probe.state = "returned" /\ ~probe.resp.doErr
    /\ ~(probe.resp.status \in 200..299) )
  => (~probe.ok /\ probe.consumed = 0)

\* C10 witness: a 500 whose body starts with a qualifying success line
C10_Witness ==
  /\ probe.state = "returned" /\ ~probe.resp.doErr /\ probe.resp.status = 500
  /\ Len(probe.resp.lines) >= 1
  /\ probe.resp.lines[1] = [decodes |-> TRUE, Success |-> TRUE, Time |-> 5000000]
  /\ ~probe.ok /\ probe.consumed = 0


(* ------------ one /hehojexiste request, followed to its response -------- *)

\* the handler goroutine that serves the request req
ReqHandler == "h1"
Requests == [method : Methods, body : Bodies]
\* the table when the request arrives: empty, or the peer QmA already known
KnownRow == Row("QmA", 0, TRUE)

InitRequest ==
  /\ store \in {{}, {KnownRow}}
  /\ lastUpsert = [p \in Peers |->
                     IF HasRecord(store, p)
                       THEN [applied |-> TRUE, checkTime |-> KnownRow.last_time_check,
                             active |-> KnownRow.active]
                     ELSE NoCall]
  /\ dbMu = NoOwner
  /\ clock = 0
  /\ pc = [t \in Tasks |-> IF t = Worker THEN "w_lock" ELSE "idle"]
  /\ pid = [t \in Tasks |-> ""]
  /\ ok = [t \in Tasks |-> FALSE]
  /\ checkTime = [t \in Tasks |-> 0]
  /\ err = [t \in Tasks |-> FALSE]
  /\ rows = [t \in Tasks |-> NoRows]
  /\ pidsToPing = <<>>
  /\ out = [h \in Handlers |-> NoResponse]
  /\ probe = ProbeIdle
  /\ query = QueryIdle
  /\ req \in Requests
  /\ probes = [h \in Handlers |-> 0]

\* the request runs beside the worker
NextRequest ==
  \/ HehojArrive(ReqHandler, req.method, req.body)
  \/ UpsertStep(ReqHandler)
  \/ Tick
  \/ WorkerStep
  \/ UpsertStep(Worker)

SpecRequest == InitRequest /\ [][NextRequest]_vars

\* the request passes the validation of lines 303-317
ValidRequest == req.method = "POST" /\ req.body.decodes /\ req.body.peer_id # ""

\* C11: a POST /hehojexiste with a non-empty peer_id, for a known or an
\* unknown peer, makes exactly one probe for that peer_id, then one upsert
\* which (when the storage applies it) leaves the row of that peer_id with
\* active = the probe's verdict, then answers 200 with ping_successful = that
\* same verdict.
C11_TriggerProbe ==
  /\ [](ValidRequest =>
          /\ pc[ReqHandler] # "idle" =>
               probes[ReqHandler] = 1 /\ pid[ReqHandler] = req.body.peer_id
          /\ pc[ReqHandler] = "done" =>
               /\ out[ReqHandler].status = 200
               /\ out[ReqHandler].ping_successful = ok[ReqHandler])
  /\ [][ValidRequest =>
          /\ pc'[ReqHandler] # pc[ReqHandler] =>
               <<pc[ReqHandler], pc'[ReqHandler]>> \in
                 {<<"idle", "ping">>, <<"ping", "u_lock">>, <<"u_lock", "u_exec">>,
                  <<"u_exec", "u_ret">>, <<"u_ret", "done">>}
          /\ pc[ReqHandler] \notin {"idle", "ping"} => ok'[ReqHandler] = ok[ReqHandler]
          /\ (pc[ReqHandler] = "u_exec" /\ pc'[ReqHandler] = "u_ret" /\ ~err'[ReqHandler]) =>
               \E t \in 0..MaxClock :
                 RecordsOf(store', req.body.peer_id) =
                   {Row(req.body.peer_id, t, ok[ReqHandler])}]_vars

\* C11 witness: the probe of the known, active peer QmA failed; the request
\* answered ping_successful = false and the row of QmA now has active = false
C11_Witness ==
  /\ ValidRequest /\ req.body.peer_id = "QmA"
  /\ pc[ReqHandler] = "done" /\ ~err[ReqHandler]
  /\ out[ReqHandler].status = 200 /\ ~out[ReqHandler].ping_successful
  /\ lastUpsert["QmA"].checkTime > 0
  /\ \E r \in store : r.peer_id = "QmA" /\ ~r.active /\ r.last_time_check > 0

\* C12: a rejected request - 405 for a method other than POST, 400 for an
\* undecodable body or an empty peer_id - makes no probe, takes no lock and
\* changes no row.
C12_RejectedNoEffect ==
  /\ [](~ValidRequest /\ pc[ReqHandler] # "idle" =>
          /\ pc[ReqHandler] = "done"
          /\ probes[ReqHandler] = 0
          /\ pid[ReqHandler] = ""
          /\ out[ReqHandler].status = IF req.method # "POST" THEN 405 ELSE 400)
  /\ [][(~ValidRequest /\ pc'[ReqHandler] # pc[ReqHandler]) =>
          /\ store' = store
          /\ lastUpsert' = lastUpsert
          /\ dbMu' = dbMu]_vars

\* C12 witness: POST with the body {} while QmA is in the table: 400, no probe
C12_Witness ==
  /\ req.method = "POST" /\ req.body.decodes /\ req.body.peer_id = ""
  /\ pc[ReqHandler] = "done" /\ out[ReqHandler].status = 400
  /\ probes[ReqHandler] = 0
  /\ store = {KnownRow}


(* --------------- one GET /peers request beside one upsert --------------- *)

\* the handler goroutine that serves the list, and the one that serves a
\* concurrent POST /hehojexiste
ListHandler == "h1"
Upserter == "h2"

InitList ==
  /\ store = {KnownRow}
  /\ lastUpsert = [p \in Peers |->
                     IF HasRecord(store, p)
                       THEN [applied |-> TRUE, checkTime |-> KnownRow.last_time_check,
                             active |-> KnownRow.active]
                     ELSE NoCall]
  /\ dbMu = NoOwner
  /\ clock = 0
  /\ pc = [t \in Tasks |-> IF t = Worker THEN "w_lock" ELSE "idle"]
  /\ pid = [t \in Tasks |-> ""]
  /\ ok = [t \in Tasks |-> FALSE]
  /\ checkTime = [t \in Tasks |-> 0]
  /\ err = [t \in Tasks |-> FALSE]
  /\ rows = [t \in Tasks |-> NoRows]
  /\ pidsToPing = <<>>
  /\ out = [h \in Handlers |-> NoResponse]
  /\ probe = ProbeIdle
  /\ query = QueryIdle
  /\ req = NoRequest
  /\ probes = [h \in Handlers |-> 0]

\* line 266 under the mutex: the rows of the table when db.Query is called
ListQueryOK ==
  /\ PeersQueryRows(ListHandler)
  /\ \E q \in selectAllDesc(store) : query' = [state |-> "returned", result |-> q]

NextList ==
  \/ RequestPeers(ListHandler)
  \/ PeersLock(ListHandler)
  \/ PeersQueryErr(ListHandler) /\ query' = query
  \/ ListQueryOK
  \/ PeersNext(ListHandler)
  \/ PeersDone(ListHandler)
  \/ RequestHehoj(Upserter)
  \/ UpsertStep(Upserter)
  \/ Tick

SpecList == InitList /\ [][NextList]_vars

\* the rows of a response of GET /peers
ListedRows(h) ==
  {Row(out[h].peers[i].PeerID, out[h].peers[i].LastTimeCheck, out[h].peers[i].Active) :
     i \in 1..Len(out[h].peers)}

\* C13: a list that answers 200 holds exactly the records that were in the
\* table when its query ran under the mutex, each once, from the most to the
\* least recently checked; and no step of the list changes the table.
C13_ListSnapshot ==
  /\ []((pc[ListHandler] = "done" /\ out[ListHandler].status = 200) =>
          /\ Len(out[ListHandler].peers) = Len(query.result)
          /\ ListedRows(ListHandler) = {query.result[i] : i \in 1..Len(query.result)}
          /\ \A i, j \in 1..Len(out[ListHandler].peers) :
               i < j => out[ListHandler].peers[i].LastTimeCheck >=
                          out[ListHandler].peers[j].LastTimeCheck)
  /\ [][pc'[ListHandler] # pc[ListHandler] => store' = store]_vars


(* -------- the selection of one iteration, over tables of six peers ------ *)

\* the peers of the table, in the order they were first inserted
SelectPeers == <<"Qm1", "Qm2", "Qm3", "Qm4", "Qm5", "Qm6">>
\* the rows a peer may have when the iteration starts, by the age of the last
\* check in minutes: checked 1 minute ago and active, 10 minutes ago and not
\* active, 40 minutes ago and active
Profiles ==
  {[age |-> 1, active |-> TRUE], [age |-> 10, active |-> FALSE],
   [age |-> 40, active |-> TRUE]}
MaxAge == CHOOSE a \in {p.age : p \in Profiles} : \A p \in Profiles : p.age <= a
SelectTables ==
  UNION {{ {Row(SelectPeers[i], MaxAge - f[i].age, f[i].active) : i \in 1..n} :
             f \in [1..n -> Profiles]} : n \in 0..Len(SelectPeers)}

\* minutes since the last check of row r
Age(r) == clock - r.last_time_check

InitSelect ==
  /\ store \in SelectTables
  /\ clock = MaxAge
  /\ lastUpsert = [p \in Peers |-> NoCall]
  /\ dbMu = Worker
  /\ pc = [t \in Tasks |-> IF t = Worker THEN "w_query" ELSE "idle"]
  /\ pid = [t \in Tasks |-> ""]
  /\ ok = [t \in Tasks |-> FALSE]
  /\ checkTime = [t \in Tasks |-> 0]
  /\ err = [t \in Tasks |-> FALSE]
  /\ rows = [t \in Tasks |-> NoRows]
  /\ pidsToPing = <<>>
  /\ out = [h \in Handlers |-> NoResponse]
  /\ probe = ProbeIdle
  /\ query = [state |-> "called", result |-> <<>>]
  /\ req = NoRequest
  /\ probes = [h \in Handlers |-> 0]

\* lines 98-102 on the table store: one of the results the query may give
SelectCall ==
  /\ query.state = "called"
  /\ \E q \in selectOldest(store) : query' = [state |-> "returned", result |-> q]
  /\ UNCHANGED <<store, dbMu, clock, pc, pid, ok, checkTime, err, rows,
                 pidsToPing, out, lastUpsert, probe, req, probes>>

NextSelect == SelectCall

SpecSelect == InitSelect /\ [][NextSelect]_vars


\* the selection has returned, and the row of a selected peer
Returned == query.state = "returned"
Selected == {query.result[i] : i \in 1..Len(query.result)}
RowOf(p) == CHOOSE r \in store : r.peer_id = p

\* the result is ordered from the least to the most recently checked
OldestFirst ==
  \A i, j \in 1..Len(query.result) :
    i < j => RowOf(query.result[i]).last_time_check <=
               RowOf(query.result[j]).last_time_check

\* C14 as stated: the (first) selection of an iteration returns only peers
\* with active = false whose last check is older than 5 minutes, oldest
\* first, never more than 10.
C14_InactiveTier ==
  Returned =>
    /\ \A p \in Selected :
         \E r \in store : r.peer_id = p /\ ~r.active /\ Age(r) > 5
    /\ OldestFirst
    /\ Len(query.result) <= 10

\* C14: the selection of an iteration returns peers of the table whatever
\* their active flag and the age of their last check, each once, ordered
\* oldest-checked-first, and never more than 5 (so never more than 10).
C14_SelectionOldestFirst ==
  Returned =>
    /\ \A p \in Selected : \E r \in store : r.peer_id = p
    /\ Cardinality(Selected) = Len(query.result)
    /\ OldestFirst
    /\ Len(query.result) <= Limit
    /\ Len(query.result) <= 10

\* C14 witness: a full batch that holds an active peer checked a minute ago
\* behind an older one
C14_Witness ==
  /\ Returned /\ Len(query.result) = Limit
  /\ \E p \in Selected : RowOf(p).active /\ Age(RowOf(p)) < 5
  /\ RowOf(query.result[1]).last_time_check < RowOf(query.result[Limit]).last_time_check

\* C15 as stated: the stale-tier selection returns only peers whose last
\* check is older than 30 minutes, whatever their flag, oldest first, never
\* more than 5.
C15_StaleTier ==
  Returned =>
    /\ \A p \in Selected : \E r \in store : r.peer_id = p /\ Age(r) > 30
    /\ OldestFirst
    /\ Len(query.result) <= 5

\* C15: the one selection of an iteration has no age window: it returns the
\* 5 least recently checked peers of the table (all of them when the table
\* has fewer), whatever their flag and however recent their last check,
\* oldest first.
C15_FiveLeastRecent ==
  Returned =>
    /\ Len(query.result) = IF Cardinality(store) < 5 THEN Cardinality(store) ELSE 5
    /\ \A p \in Selected : \A r \in store :
         r.peer_id \notin Selected => RowOf(p).last_time_check <= r.last_time_check
    /\ OldestFirst

\* C15 witness: six peers, five selected, one of them checked less than 30
\* minutes ago and one peer left out
C15_Witness ==
  /\ Returned /\ Cardinality(store) = 6 /\ Len(query.result) = 5
  /\ \E p \in Selected : Age(RowOf(p)) <= 30 /\ Age(RowOf(p)) > 5
  /\ \E r \in store : r.peer_id \notin Selected

\* C16 as stated: a peer whose last check is less than 5 minutes old is not
\* selected, whatever its flag.
C16_NoRecentPeer ==
  Returned => \A p \in Selected : \E r \in store : r.peer_id = p /\ Age(r) >= 5

\* C16: the age of a last check never keeps a peer out of an iteration: a
\* peer, recently checked or not, is left out only when at least 5 other
\* peers have a last check that is not more recent than its own.
C16_LeftOutOnlyBehindFive ==
  Returned =>
    \A r \in store :
      r.peer_id \notin Selected =>
        Cardinality({o \in store : o # r /\ o.last_time_check <= r.last_time_check}) >= Limit

\* C16 witness: a peer checked a minute ago is selected while another peer is
\* left out
C16_Witness ==
  /\ Returned
  /\ \E p \in Selected : Age(RowOf(p)) < 5
  /\ \E r \in store : r.peer_id \notin Selected


(* --------------------- the worker's batch and its loop ------------------ *)

\* the peers still to come out of the worker's cursor, and the last check of
\* peer p in the table
Pending == pidsToPing \o rows[Worker].buf
LastCheck(p) == (CHOOSE r \in store : r.peer_id = p).last_time_check
\* the control steps of the worker between two probes (lines 123-127, 245-262)
BatchSteps ==
  {<<"w_range", "ping">>, <<"ping", "u_lock">>, <<"u_lock", "u_exec">>,
   <<"u_exec", "u_ret">>, <<"u_ret", "w_range">>, <<"w_range", "w_lock">>}
InBatch == pc[Worker] \in {"w_range", "ping", "u_lock", "u_exec", "u_ret"}

\* the worker probes the peers of pidsToPing one at a time from the front,
\* pidsToPing keeps the order of the selection (oldest first), and the upsert
\* of a peer returns before the next probe starts
SequentialBatch ==
  /\ [](pc[Worker] = "w_next" =>
          /\ \A p \in {Pending[i] : i \in 1..Len(Pending)} : HasRecord(store, p)
          /\ \A i, j \in 1..Len(Pending) :
               i < j => Pending[i] # Pending[j] /\ LastCheck(Pending[i]) <= LastCheck(Pending[j]))
  /\ [][(InBatch /\ pc'[Worker] # pc[Worker]) =>
          /\ <<pc[Worker], pc'[Worker]>> \in BatchSteps
          /\ pc'[Worker] = "ping" =>
               /\ pidsToPing # <<>>
               /\ pid'[Worker] = Head(pidsToPing)
               /\ pidsToPing' = Tail(pidsToPing)
          /\ pc'[Worker] = "w_lock" => pidsToPing = <<>>
          /\ pc[Worker] # "w_range" => pidsToPing' = pidsToPing
          /\ pc[Worker] \in {"ping", "u_lock", "u_exec"} => pid'[Worker] = pid[Worker]
          /\ (pc[Worker] = "u_exec" /\ ~err'[Worker]) =>
               Row(pid[Worker], checkTime[Worker], ok[Worker]) \in store']_vars

\* C17 as stated: sequential probing in selection order, each upsert before
\* the next probe, and when the batch is complete the iteration goes on to a
\* second (stale-tier) selection instead of ending.
C17_TwoTierOrder ==
  /\ SequentialBatch
  /\ [][(pc[Worker] = "w_range" /\ pidsToPing = <<>>) => pc'[Worker] # "w_lock"]_vars

\* C17: within an iteration the peers are probed one at a time in the order
\* of the selection (oldest-checked-first), each upsert returns before the
\* next probe starts, and the whole batch is done before the next selection,
\* which is that of the next iteration, is evaluated.
C17_BatchBeforeNextSelection ==
  /\ SequentialBatch
  /\ [](pc[Worker] \in {"w_lock", "w_query", "w_sleep"} =>
          pidsToPing = <<>> /\ pid[Worker] = "")
  /\ [][pc'[Worker] = "w_query" => pc[Worker] \in {"w_lock", "w_query"}]_vars

\* C17 witness: the first peer of a batch of two has been upserted and the
\* second is still to be probed
C17_Witness ==
  /\ pc[Worker] = "u_ret" /\ ~err[Worker]
  /\ Len(pidsToPing) = 1 /\ pidsToPing[1] # pid[Worker]
  /\ Row(pid[Worker], checkTime[Worker], ok[Worker]) \in store

\* C18: a failed probe of the worker is followed by the upsert of that peer
\* with active = false, the worker then goes on with the rest of its batch,
\* and every probe, whatever its verdict, is followed by the selection of
\* another iteration.
C18_LoopSurvivesProbes ==
  /\ [][(pc[Worker] = "ping" /\ pc'[Worker] # "ping") =>
          pc'[Worker] = "u_lock" /\ pid'[Worker] = pid[Worker]]_vars
  /\ [][(pc[Worker] = "u_ret" /\ pc'[Worker] # "u_ret") =>
          pc'[Worker] = "w_range" /\ pidsToPing' = pidsToPing]_vars
  /\ [][(pc[Worker] = "u_exec" /\ ~ok[Worker] /\ pc'[Worker] # "u_exec" /\ ~err'[Worker]) =>
          RecordsOf(store', pid[Worker]) = {Row(pid[Worker], checkTime[Worker], FALSE)}]_vars
  /\ (pc[Worker] = "ping") ~> (pc[Worker] = "w_query")

\* C18 witness: the worker's probe failed, the peer is now recorded not
\* active and another peer of the batch is waiting
C18_Witness ==
  /\ pc[Worker] = "u_ret" /\ ~ok[Worker] /\ ~err[Worker]
  /\ \E r \in store : r.peer_id = pid[Worker] /\ ~r.active
  /\ pidsToPing # <<>>

\* C19: when the worker's query fails the mutex is released, nothing is
\* probed or written, the worker sleeps and then goes back to the head of the
\* loop, and it reaches its next query.
C19_QueryFailureRetries ==
  /\ [][(pc[Worker] = "w_query" /\ pc'[Worker] = "w_sleep") =>
          err'[Worker] /\ dbMu' = NoOwner /\ store' = store /\ pidsToPing' = <<>>]_vars
  /\ [](pc[Worker] = "w_sleep" => dbMu # Worker /\ pidsToPing = <<>> /\ pid[Worker] = "")
  /\ [][(pc[Worker] = "w_sleep" /\ pc'[Worker] # "w_sleep") =>
          pc'[Worker] = "w_lock" /\ store' = store /\ lastUpsert' = lastUpsert]_vars
  /\ (pc[Worker] = "w_sleep") ~> (pc[Worker] = "w_query")

\* C19 witness: the worker sleeps after a failed query while a handler holds
\* the mutex over a non-empty table
C19_Witness ==
  /\ pc[Worker] = "w_sleep" /\ err[Worker]
  /\ dbMu \in Handlers
  /\ store # {}

\* C20: no step removes a peer_id from the table.
C20_NoRecordDeleted ==
  [][\A r \in store : \E q \in store' : q.peer_id = r.peer_id]_vars

\* C20 witness: two requests have recorded two peers and the worker has
\* updated one of them to not active; both are still recorded
C20_Witness ==
  /\ Cardinality(store) = 2
  /\ {r.peer_id : r \in store} = Peers
  /\ pc[Worker] = "u_ret" /\ ~err[Worker] /\ ~ok[Worker]
  /\ \A h \in Handlers : pc[h] = "done" /\ out[h].status = 200


(* ------------------ a request whose upsert fails in the store ----------- *)

\* C21: when db.Exec fails in the upsert of a /hehojexiste request, the
\* failing step changes no row, upsertPeer still returns with dbMu released,
\* and the request answers 200 with ping_successful = the probe's verdict.
C21_UpsertFailureStillAnswers ==
  /\ [][(pc[ReqHandler] = "u_exec" /\ pc'[ReqHandler] = "u_ret" /\ err'[ReqHandler]) =>
          store' = store /\ lastUpsert' = lastUpsert /\ ok'[ReqHandler] = ok[ReqHandler]]_vars
  /\ [][(pc[ReqHandler] = "u_ret" /\ err[ReqHandler] /\ pc'[ReqHandler] # "u_ret") =>
          /\ dbMu = ReqHandler /\ dbMu' = NoOwner
          /\ store' = store
          /\ pc'[ReqHandler] = "done"
          /\ out'[ReqHandler].status = 200
          /\ out'[ReqHandler].ping_successful = ok[ReqHandler]]_vars
  /\ []((pc[ReqHandler] = "done" /\ ValidRequest /\ err[ReqHandler]) =>
          /\ dbMu # ReqHandler
          /\ out[ReqHandler].status = 200
          /\ out[ReqHandler].ping_successful = ok[ReqHandler])

\* C21 witness: the probe of an unknown peer succeeded, its upsert failed:
\* the request answered ping_successful = true, the table is still empty and
\* the mutex is free
C21_Witness ==
  /\ ValidRequest /\ pc[ReqHandler] = "done" /\ err[ReqHandler]
  /\ out[ReqHandler].status = 200 /\ out[ReqHandler].ping_successful
  /\ store = {} /\ dbMu = NoOwner


(* ------------------------ who creates a record -------------------------- *)

\* the peer_ids recorded in the table
Known == {r.peer_id : r \in store}

HandlerReset(h) ==
  /\ pc[h] = "done"
  /\ pc' = [pc EXCEPT ![h] = "idle"]
  /\ pid' = [pid EXCEPT ![h] = ""]
  /\ ok' = [ok EXCEPT ![h] = FALSE]
  /\ err' = [err EXCEPT ![h] = FALSE]
  /\ out' = [out EXCEPT ![h] = NoResponse]
  /\ probes' = [probes EXCEPT ![h] = 0]
  /\ UNCHANGED <<store, dbMu, clock, checkTime, rows, pidsToPing, lastUpsert,
                 probe, query, req>>

\* the steps of the worker and of the /hehojexiste requests, served one after
\* the other, when db.Query, rows.Scan and db.Exec succeed
NextLoop ==
  \/ Tick
  \/ WorkerLock
  \/ WorkerQueryOK
  \/ WorkerScan(FALSE)
  \/ WorkerClose
  \/ WorkerRange
  \/ RequestHehoj(Upserter)
  \/ HandlerReset(Upserter)
  \/ \E t \in {Worker, Upserter} :
       PingReturn(t) \/ UpsertLock(t) \/ UpsertExecOK(t) \/ UpsertReturn(t)

LoopSpec == Init /\ [][NextLoop]_vars

\* a step a task takes alone: the probe returns (30 s timeout at the latest),
\* the statement is executed, the function returns
LoopProgress(t) ==
  \/ PingReturn(t) \/ UpsertExecOK(t) \/ UpsertReturn(t)
  \/ (t = Worker /\ (WorkerQueryOK \/ WorkerScan(FALSE) \/ WorkerClose \/ WorkerRange))

FairLoopSpec ==
  /\ LoopSpec
  /\ \A t \in Tasks : WF_vars(LoopProgress(t)) /\ SF_vars(TaskLock(t))

\* the worker has probed peer p and its upsert has been applied
WorkerUpserted(p) ==
  /\ pc[Worker] = "u_ret" /\ pid[Worker] = p
  /\ Row(p, checkTime[Worker], ok[Worker]) \in store

RECURSIVE AfterBatch(_, _, _)
AfterBatch(s, q, t) ==
  IF q = <<>> THEN s
  ELSE AfterBatch(upsertPeer(s, Head(q), t, FALSE), Tail(q), t)

\* tables above the LIMIT of the query: a peer that a selection left out is
\* in every selection that follows the upserts of that batch
NextBatchTakesLeftOut ==
  Returned =>
    \A q \in selectOldest(AfterBatch(store, query.result, clock + 1)) :
      \A r \in store :
        r.peer_id \notin Selected => \E i \in 1..Len(q) : q[i] = r.peer_id

====
